---- MODULE Spec2Model ----
(***************************************************************************)
(* The fanout dispatcher and the per-inbox delivery workers of the relay   *)
(* (src/src/relay.rs).  One Dispatcher task reads the feed stream, turns   *)
(* each post into relay identities, looks up the inboxes following each    *)
(* identity and hands one Job per inbox to that inbox's worker through a   *)
(* bounded futures::channel::mpsc channel.  Each worker delivers its jobs  *)
(* one at a time and backs off after failures.                             *)
(*                                                                         *)
(* Task bodies run atomically between their suspension points (.await);    *)
(* the tasks interleave freely.                                            *)
(***************************************************************************)
EXTENDS Integers, Sequences, FiniteSets, TLC

VARIABLES
    stream,     \* payloads sent on the feed channel and not yet received
    streamOpen, \* TRUE while the feed's sending side exists
    nextUri,    \* the uri the next post of the feed carries
    env,        \* the environment: [feed, ticks, answers, inboxes, stalled]
    now,        \* the monotonic clock (Instant::now()), in seconds
    disp,       \* the Dispatcher task: its position and its locals
    workers,    \* the Dispatcher's HashMap: inbox -> index of its channel
    chans,      \* the mpsc channels, in the order of their creation
    tasks,      \* the worker tasks, tasks[w] reading from chans[w]
    metrics,    \* relay_posts_total by action, and the histogram's sample count
    note,       \* history: what the Dispatcher did for its latest payload
    journal,    \* history: the outcome of every payload handled so far
    rejected,   \* history: the jobs try_send returned as an error
    hist        \* history: per worker, the jobs accepted and handled

vars == <<stream, streamOpen, nextUri, env, now, disp, workers, chans, tasks,
          metrics, note, journal, rejected, hist>>

----------------------------------------------------------------------------
(* Bounds of the model *)

\* payloads the feed sends in one run
MaxPosts == 2
\* clock ticks in one run
MaxTicks == 1
\* delivery calls the remote servers answer in one run (later calls hang)
MaxAnswers == 1
\* the ceiling of the u32 failure counter: u32::MAX is 2^32-1, which is
\* beyond the integers TLC computes with, so the counter's width is scaled
ErrorsMax == 3

(* Constants of the program *)

\* channel(1024)
ChannelBuffer == 1024
\* Duration::from_secs(10)
BackoffSecs == 10

\* one tick of the model's clock: half a backoff unit, so that a job can
\* arrive before, at and after the end of a cool-down
TickSecs == BackoffSecs \div 2

----------------------------------------------------------------------------
(* Values *)

\* Option<T>: None is <<>>, Some(x) is <<x>>
None == <<>>
Some(x) == <<x>>

Hostname == "relay.example"
InboxB == "https://b.example/inbox"
InboxC == "https://c.example/inbox"
Inboxes == {InboxB, InboxC}

GoodUrl == "https://A.Example/p/1"
BadUrl == "mailto:nobody"

\* str::to_lowercase on the strings of the model
ToLowercase(s) ==
    CASE s = "A.Example" -> "a.example"
      [] s = "Rust" -> "rust"
      [] OTHER -> s

\* reqwest::Url::parse(url).ok().and_then(|url| url.domain()): the domain of
\* a URL that parses and has one
UrlDomain(url) == IF url = GoodUrl THEN Some("A.Example") ELSE None

\* Post::host
host(post) ==
    IF post.url = None THEN None
    ELSE LET d == UrlDomain(post.url[1])
         IN  IF d = None THEN None ELSE Some(ToLowercase(d[1]))

\* Post::tags: the tag names, in input order
tags(post) == post.tags

InstanceRelay(h) == [variant |-> "instance", value |-> h]
TagRelay(t) == [variant |-> "tag", value |-> t]

\* actor::ActorKind::from_tag: the tag's name normalised to lower case
from_tag(s) == TagRelay(ToLowercase(s))

\* relay_target_kinds chaining the other way: the tags first, then the host
relay_target_kinds_tags_first(post) ==
    LET h == host(post)
        ts == tags(post)
    IN  [k \in 1..Len(ts) |-> from_tag(ts[k])]
        \o (IF h = None THEN <<>> ELSE <<InstanceRelay(h[1])>>)

\* Post::relay_target_kinds: the host's identity first, then one per tag
relay_target_kinds(post) ==
    LET h == host(post)
        ts == tags(post)
    IN  (IF h = None THEN <<>> ELSE <<InstanceRelay(h[1])>>)
        \o [k \in 1..Len(ts) |-> from_tag(ts[k])]

\* Post::relay_targets
relay_targets(post, hostname) ==
    LET kinds == relay_target_kinds(post)
    IN  [k \in 1..Len(kinds) |-> [host |-> hostname, kind |-> kinds[k]]]

\* actor::Actor::uri
uri(actor) == <<"https:", actor.host, actor.kind.variant, actor.kind.value>>

\* actor::Actor::key_id
key_id(actor) == <<uri(actor), "#key">>

\* the Announce activity of relay.rs:152-159
Announce(actor_id, post, post_url) ==
    [type |-> "Announce", actor |-> actor_id, object |-> post.uri, id |-> post_url]

\* the Job of relay.rs:170-176
NewJob(post, post_url, actor) ==
    [post_url |-> post_url,
     actor_id |-> uri(actor),
     body |-> Announce(uri(actor), post, post_url),
     key_id |-> key_id(actor)]

----------------------------------------------------------------------------
(* The payloads of the feed *)

TagLists == {<<>>, <<"Rust", "rust">>}

\* the payloads the feed can send as its n-th: one that is no JSON, a
\* reshare (no url), and posts with and without a host and tags
Payloads(n) ==
    {[valid |-> FALSE, url |-> None, uri |-> n, tags |-> <<>>],
     [valid |-> TRUE, url |-> None, uri |-> n, tags |-> <<"rust">>],
     [valid |-> TRUE, url |-> Some(BadUrl), uri |-> n, tags |-> <<>>]}
    \cup {[valid |-> TRUE, url |-> Some(GoodUrl), uri |-> n, tags |-> t] : t \in TagLists}

\* what get_following_inboxes can return: any sequence of inboxes of the
\* follower store, an inbox possibly twice
LookupResults(inboxes) ==
    {<<>>} \cup {<<i>> : i \in inboxes} \cup {<<i, j>> : i \in inboxes, j \in inboxes}

\* the set of the elements of a sequence
Range(s) == {s[k] : k \in DOMAIN s}

----------------------------------------------------------------------------
(* futures::channel::mpsc, bounded, with the one Sender the registry holds *)

\* channel(buffer): an open, empty channel
channel == [queue |-> <<>>, parked |-> FALSE, tx |-> TRUE, rx |-> TRUE]

\* try_send without the test for a parked sender: the channel is unbounded
try_send_unbounded(ch, msg) ==
    IF ~ch.rx
    THEN [chan |-> ch, ok |-> FALSE]
    ELSE [chan |-> [ch EXCEPT !.queue = Append(@, msg)], ok |-> TRUE]

\* try_send making room in a full channel by dropping its oldest message
try_send_overwriting(ch, msg) ==
    IF ~ch.rx
    THEN [chan |-> ch, ok |-> FALSE]
    ELSE IF ch.parked
    THEN [chan |-> [ch EXCEPT !.queue = Append(Tail(@), msg)], ok |-> TRUE]
    ELSE [chan |-> [ch EXCEPT !.queue = Append(@, msg),
                              !.parked = (Len(ch.queue) + 1 > ChannelBuffer)],
          ok |-> TRUE]

\* Sender::try_send: an error while the sender is parked (Full) or when the
\* receiver is gone (Disconnected); else the message is queued, and the
\* sender parks when the messages now exceed the buffer
try_send(ch, msg) ==
    IF ch.parked \/ ~ch.rx
    THEN [chan |-> ch, ok |-> FALSE]
    ELSE [chan |-> [ch EXCEPT !.queue = Append(@, msg),
                              !.parked = (Len(ch.queue) + 1 > ChannelBuffer)],
          ok |-> TRUE]

\* next_message taking the newest message instead of the oldest
next_message_newest(ch) ==
    [msg |-> ch.queue[Len(ch.queue)],
     chan |-> [ch EXCEPT !.queue = SubSeq(@, 1, Len(@) - 1), !.parked = FALSE]]

\* Receiver::next on a channel holding a message: the oldest message is
\* taken and the parked sender is released
next_message(ch) ==
    [msg |-> Head(ch.queue),
     chan |-> [ch EXCEPT !.queue = Tail(@), !.parked = FALSE]]

\* dropping the Receiver: the channel is closed and its messages are dropped
drop_rx(ch) == [ch EXCEPT !.queue = <<>>, !.parked = FALSE, !.rx = FALSE]

\* dropping the Dispatcher's HashMap drops every Sender
drop_senders(cs) == [w \in DOMAIN cs |-> [cs[w] EXCEPT !.tx = FALSE]]

----------------------------------------------------------------------------
(* The Dispatcher: relay.rs, spawn *)

\* the Dispatcher awaiting the next payload, its per-post locals out of scope
Receiving ==
    [pc |-> "recv", post |-> None, post_url |-> None, targets |-> <<>>,
     seen_actors |-> {}, seen_inboxes |-> {}]

NoNote == [uri |-> 0, kind |-> "none", phase |-> "none", lookups |-> <<>>, built |-> <<>>,
           spawned |-> <<>>, base |-> [skip |-> 0, no_relay |-> 0, relay |-> 0, duration |-> 0]]

\* a worker task as spawn_worker starts it (relay.rs:76-77)
NewTask(inbox) ==
    [inbox |-> inbox, pc |-> "idle", errors |-> 0, last_request |-> None, job |-> None]

NewHist == [accepted |-> <<>>, handled |-> <<>>, fails |-> 0]

\* entry_or_insert as HashMap::insert: a worker is spawned at every use
always_insert(st, inbox) ==
    [st EXCEPT !.workers = (inbox :> (Len(st.chans) + 1)) @@ st.workers,
               !.chans = Append(st.chans, channel),
               !.tasks = Append(st.tasks, NewTask(inbox)),
               !.hist = Append(st.hist, NewHist),
               !.spawned = Append(st.spawned, inbox)]

\* entry_or_insert replacing the entry of a worker that has ended
respawn_dead(st, inbox) ==
    IF inbox \in DOMAIN st.workers /\ st.tasks[st.workers[inbox]].pc # "dead" THEN st
    ELSE [st EXCEPT !.workers = [i \in DOMAIN st.workers \cup {inbox} |->
                                    IF i = inbox THEN Len(st.chans) + 1 ELSE st.workers[i]],
                    !.chans = Append(st.chans, channel),
                    !.tasks = Append(st.tasks, NewTask(inbox)),
                    !.hist = Append(st.hist, NewHist),
                    !.spawned = Append(st.spawned, inbox)]

\* workers.entry(inbox).or_insert_with(|| spawn_worker(..)): the registry
\* with an entry for inbox, a channel and a task created when it had none
entry_or_insert(st, inbox) ==
    IF inbox \in DOMAIN st.workers THEN st
    ELSE [st EXCEPT !.workers = (inbox :> (Len(st.chans) + 1)) @@ st.workers,
                    !.chans = Append(st.chans, channel),
                    !.tasks = Append(st.tasks, NewTask(inbox)),
                    !.hist = Append(st.hist, NewHist),
                    !.spawned = Append(st.spawned, inbox)]

\* submit without the seen_inboxes test of relay.rs:165-167
submit_unseen(st, inbox, job) ==
    LET reg == entry_or_insert(st, inbox)
        w == reg.workers[inbox]
        sent == try_send(reg.chans[w], job)
    IN  [reg EXCEPT !.seen_inboxes = @ \cup {inbox},
                    !.chans[w] = sent.chan,
                    !.hist[w].accepted = IF sent.ok THEN Append(@, job) ELSE @,
                    !.built = Append(@, [inbox |-> inbox, job |-> job,
                                         worker |-> w, accepted |-> sent.ok]),
                    !.rejected = IF sent.ok THEN @
                                 ELSE @ \cup {[worker |-> w, job |-> job]}]

\* submit marking an inbox seen only when its mailbox accepted the job
submit_seen_if_accepted(st, inbox, job) ==
    IF inbox \in st.seen_inboxes THEN st
    ELSE LET reg == entry_or_insert(st, inbox)
             w == reg.workers[inbox]
             sent == try_send(reg.chans[w], job)
         IN  [reg EXCEPT !.seen_inboxes = IF sent.ok THEN @ \cup {inbox} ELSE @,
                         !.chans[w] = sent.chan,
                         !.hist[w].accepted = IF sent.ok THEN Append(@, job) ELSE @,
                         !.built = Append(@, [inbox |-> inbox, job |-> job,
                                              worker |-> w, accepted |-> sent.ok]),
                         !.rejected = IF sent.ok THEN @
                                      ELSE @ \cup {[worker |-> w, job |-> job]}]

\* relay.rs:165-179, one inbox of a lookup's result: skipped when seen for
\* this post, else marked seen and a Job handed to its worker with try_send,
\* whose result is ignored
submit(st, inbox, job) ==
    IF inbox \in st.seen_inboxes THEN st
    ELSE LET reg == entry_or_insert(st, inbox)
             w == reg.workers[inbox]
             sent == try_send(reg.chans[w], job)
         IN  [reg EXCEPT !.seen_inboxes = @ \cup {inbox},
                         !.chans[w] = sent.chan,
                         !.hist[w].accepted = IF sent.ok THEN Append(@, job) ELSE @,
                         !.built = Append(@, [inbox |-> inbox, job |-> job,
                                              worker |-> w, accepted |-> sent.ok]),
                         !.rejected = IF sent.ok THEN @
                                      ELSE @ \cup {[worker |-> w, job |-> job]}]

RECURSIVE fan_out(_, _, _)
\* relay.rs:164-180: the loop over the inboxes one lookup returned
fan_out(st, inboxes, job) ==
    IF inboxes = <<>> THEN st
    ELSE fan_out(submit(st, Head(inboxes), job), Tail(inboxes), job)

RECURSIVE skip_seen(_, _)
\* relay.rs:147-149: identities already handled for this post are passed over
skip_seen(targets, seen_actors) ==
    IF targets = <<>> THEN <<>>
    ELSE IF Head(targets) \in seen_actors THEN skip_seen(Tail(targets), seen_actors)
    ELSE targets

\* the outcome counter counting every post with a url as relayed
count_outcome_relay(m, seen_inboxes) == [m EXCEPT !.relay = @ + 1]

\* relay.rs:184-188: the outcome counter of a post
count_outcome(m, seen_inboxes) ==
    IF seen_inboxes = {} THEN [m EXCEPT !.no_relay = @ + 1]
    ELSE [m EXCEPT !.relay = @ + 1]

\* the histogram sample left out
record_duration_never(m) == m

\* relay.rs:189-190: the histogram sample
record_duration(m) == [m EXCEPT !.duration = @ + 1]

Outcome(seen_inboxes) == IF seen_inboxes = {} THEN "no_relay" ELSE "relay"

\* the feed sends its next payload
FeedSend ==
    /\ streamOpen
    /\ env.feed > 0
    /\ \E data \in Payloads(nextUri) : stream' = Append(stream, data)
    /\ nextUri' = nextUri + 1
    /\ env' = [env EXCEPT !.feed = @ - 1]
    /\ UNCHANGED <<streamOpen, now, disp, workers, chans, tasks, metrics, note,
                   journal, rejected, hist>>

\* the feed's sending side is dropped
FeedClose ==
    /\ streamOpen
    /\ streamOpen' = FALSE
    /\ UNCHANGED <<stream, nextUri, env, now, disp, workers, chans, tasks, metrics,
                   note, journal, rejected, hist>>

\* a payload that is no Post ending the Dispatcher, as from_str(..).unwrap()
RecvMalformed_fatal ==
    /\ disp.pc = "recv"
    /\ stream # <<>>
    /\ ~Head(stream).valid
    /\ stream' = Tail(stream)
    /\ disp' = [Receiving EXCEPT !.pc = "panicked"]
    /\ workers' = <<>>
    /\ chans' = drop_senders(chans)
    /\ note' = [NoNote EXCEPT !.uri = Head(stream).uri, !.kind = "malformed",
                              !.phase = "parse_error", !.base = metrics]
    /\ journal' = Append(journal, [uri |-> Head(stream).uri, outcome |-> "parse_error"])
    /\ UNCHANGED <<streamOpen, nextUri, env, now, tasks, metrics, rejected, hist>>

\* relay.rs:126-135: a payload that is no Post is logged and dropped
RecvMalformed ==
    /\ disp.pc = "recv"
    /\ stream # <<>>
    /\ LET data == Head(stream)
       IN  /\ ~data.valid
           /\ note' = [NoNote EXCEPT !.uri = data.uri, !.kind = "malformed",
                                     !.phase = "parse_error",
                                     !.base = metrics]
           /\ journal' = Append(journal, [uri |-> data.uri, outcome |-> "parse_error"])
    /\ stream' = Tail(stream)
    /\ UNCHANGED <<streamOpen, nextUri, env, now, disp, workers, chans, tasks, metrics,
                   rejected, hist>>

\* a post without url relayed under its uri instead of skipped
RecvSkip_relayed ==
    /\ disp.pc = "recv"
    /\ stream # <<>>
    /\ Head(stream).valid
    /\ Head(stream).url = None
    /\ stream' = Tail(stream)
    /\ LET post == Head(stream)
       IN  /\ disp' = [pc |-> "lookup", post |-> Some(post),
                       post_url |-> Some(post.uri),
                       targets |-> relay_targets(post, Hostname),
                       seen_actors |-> {}, seen_inboxes |-> {}]
           /\ note' = [NoNote EXCEPT !.uri = post.uri, !.kind = "reshare",
                                     !.phase = "active", !.base = metrics]
    /\ UNCHANGED <<streamOpen, nextUri, env, now, workers, chans, tasks, metrics,
                   journal, rejected, hist>>

\* relay.rs:136-143: a post without url is counted as skip
RecvSkip ==
    /\ disp.pc = "recv"
    /\ stream # <<>>
    /\ LET post == Head(stream)
       IN  /\ post.valid
           /\ post.url = None
           /\ note' = [NoNote EXCEPT !.uri = post.uri, !.kind = "reshare",
                                     !.phase = "done", !.base = metrics]
           /\ journal' = Append(journal, [uri |-> post.uri, outcome |-> "skip"])
    /\ stream' = Tail(stream)
    /\ metrics' = [metrics EXCEPT !.skip = @ + 1]
    /\ UNCHANGED <<streamOpen, nextUri, env, now, disp, workers, chans, tasks,
                   rejected, hist>>

\* relay.rs:136-151 and 184-190: a post with a url; the Dispatcher runs to
\* the lookup of its first identity, or to the end of the post when it has
\* no identity
RecvPost ==
    /\ disp.pc = "recv"
    /\ stream # <<>>
    /\ stream' = Tail(stream)
    /\ Head(stream).valid
    /\ Head(stream).url # None
    /\ LET post == Head(stream)
           targets == skip_seen(relay_targets(post, Hostname), {})
       IN  IF targets = <<>>
           THEN /\ disp' = Receiving
                /\ metrics' = record_duration(count_outcome(metrics, {}))
                /\ note' = [NoNote EXCEPT !.uri = post.uri, !.kind = "post",
                                          !.phase = "done", !.base = metrics]
                /\ journal' = Append(journal, [uri |-> post.uri, outcome |-> Outcome({})])
           ELSE /\ disp' = [pc |-> "lookup", post |-> Some(post),
                            post_url |-> Some(post.url[1]), targets |-> targets,
                            seen_actors |-> {}, seen_inboxes |-> {}]
                /\ metrics' = metrics
                /\ note' = [NoNote EXCEPT !.uri = post.uri, !.kind = "post",
                                          !.phase = "active", !.base = metrics]
                /\ journal' = journal
    /\ UNCHANGED <<streamOpen, nextUri, env, now, workers, chans, tasks, rejected, hist>>

\* relay.rs:164-190: get_following_inboxes returns; a Job goes to each new
\* inbox, the identity is marked seen, and the Dispatcher runs to the next
\* lookup or to the end of the post
LookupOk ==
    /\ disp.pc = "lookup"
    /\ \E inboxes \in LookupResults(env.inboxes) :
         LET actor == Head(disp.targets)
             job == NewJob(disp.post[1], disp.post_url[1], actor)
             st == fan_out([seen_inboxes |-> disp.seen_inboxes, workers |-> workers,
                            chans |-> chans, tasks |-> tasks, hist |-> hist,
                            built |-> note.built, rejected |-> rejected,
                            spawned |-> note.spawned],
                           inboxes, job)
             seen_actors == disp.seen_actors \cup {actor}
             targets == skip_seen(Tail(disp.targets), seen_actors)
             looked == Append(note.lookups, [actor |-> actor, inboxes |-> Range(inboxes)])
         IN  /\ workers' = st.workers
             /\ chans' = st.chans
             /\ tasks' = st.tasks
             /\ hist' = st.hist
             /\ rejected' = st.rejected
             /\ IF targets = <<>>
                THEN /\ disp' = Receiving
                     /\ metrics' = record_duration(count_outcome(metrics, st.seen_inboxes))
                     /\ note' = [note EXCEPT !.phase = "done", !.lookups = looked,
                                             !.built = st.built, !.spawned = st.spawned]
                     /\ journal' = Append(journal, [uri |-> note.uri,
                                                    outcome |-> Outcome(st.seen_inboxes)])
                ELSE /\ disp' = [disp EXCEPT !.targets = targets,
                                             !.seen_actors = seen_actors,
                                             !.seen_inboxes = st.seen_inboxes]
                     /\ metrics' = metrics
                     /\ note' = [note EXCEPT !.lookups = looked, !.built = st.built,
                                             !.spawned = st.spawned]
                     /\ journal' = journal
    /\ UNCHANGED <<stream, streamOpen, nextUri, env, now>>

\* a failed lookup taken as a lookup that returned no inbox: the Dispatcher
\* goes on with the next identity, or ends the post
LookupErr_recovered ==
    /\ disp.pc = "lookup"
    /\ LET seen_actors == disp.seen_actors \cup {Head(disp.targets)}
           targets == skip_seen(Tail(disp.targets), seen_actors)
       IN  IF targets = <<>>
           THEN /\ disp' = Receiving
                /\ metrics' = record_duration(count_outcome(metrics, disp.seen_inboxes))
                /\ note' = [note EXCEPT !.phase = "done"]
           ELSE /\ disp' = [disp EXCEPT !.targets = targets, !.seen_actors = seen_actors]
                /\ metrics' = metrics
                /\ note' = note
    /\ journal' = Append(journal, [uri |-> note.uri, outcome |-> "panic"])
    /\ UNCHANGED <<stream, streamOpen, nextUri, env, now, workers, chans, tasks,
                   rejected, hist>>

\* relay.rs:164: get_following_inboxes fails and unwrap panics; the task
\* ends and its registry, with every Sender, is dropped
LookupErr ==
    /\ disp.pc = "lookup"
    /\ disp' = [Receiving EXCEPT !.pc = "panicked"]
    /\ workers' = <<>>
    /\ chans' = drop_senders(chans)
    /\ note' = [note EXCEPT !.phase = "panicked"]
    /\ journal' = Append(journal, [uri |-> note.uri, outcome |-> "panic"])
    /\ UNCHANGED <<stream, streamOpen, nextUri, env, now, tasks, metrics, rejected, hist>>

\* the loop ending as soon as the stream is closed, payloads still in it
RecvClosed_early ==
    /\ disp.pc = "recv"
    /\ ~streamOpen
    /\ disp' = [Receiving EXCEPT !.pc = "done"]
    /\ workers' = <<>>
    /\ chans' = drop_senders(chans)
    /\ UNCHANGED <<stream, streamOpen, nextUri, env, now, tasks, metrics, note,
                   journal, rejected, hist>>

\* relay.rs:126: the stream is closed and empty, recv returns None and the
\* loop ends; the registry is dropped with the task
RecvClosed ==
    /\ disp.pc = "recv"
    /\ stream = <<>>
    /\ ~streamOpen
    /\ disp' = [Receiving EXCEPT !.pc = "done"]
    /\ workers' = <<>>
    /\ chans' = drop_senders(chans)
    /\ UNCHANGED <<stream, streamOpen, nextUri, env, now, tasks, metrics, note,
                   journal, rejected, hist>>

----------------------------------------------------------------------------
(* The Delivery Workers: relay.rs, spawn_worker *)

Min(a, b) == IF a < b THEN a ELSE b

\* u32::wrapping_add, on the counter's scaled width
wrapping_add(a, b) == (a + b) % (ErrorsMax + 1)

\* u32::saturating_add, on the counter's scaled width
saturating_add(a, b) == Min(a + b, ErrorsMax)

\* the backoff gate with a cool-down that does not grow with the failures
backoff_flat(errors, last_request, t) ==
    /\ errors > 0
    /\ last_request # None
    /\ t - last_request[1] < BackoffSecs

\* the backoff gate still closed at the very end of the cool-down
backoff_inclusive(errors, last_request, t) ==
    /\ errors > 0
    /\ last_request # None
    /\ t - last_request[1] <= BackoffSecs * errors

\* relay.rs:80-82: the backoff gate
backoff(errors, last_request, t) ==
    /\ errors > 0
    /\ last_request # None
    /\ t - last_request[1] < BackoffSecs * errors

\* the worker's state after a failed delivery (relay.rs:95-96)
on_failure(task) ==
    [task EXCEPT !.pc = "idle", !.job = None, !.errors = saturating_add(@, 1)]

\* the worker's state after a delivery that succeeded (relay.rs:99)
on_success(task) == [task EXCEPT !.pc = "idle", !.job = None, !.errors = 0]

\* the worker's state when it starts a delivery (relay.rs:89-91)
start_request(task, job, t) ==
    [task EXCEPT !.pc = "sending", !.job = Some(job), !.last_request = Some(t)]

\* relay.rs:79-94: the worker receives its next job; inside a cool-down the
\* job is skipped, else its delivery starts
WorkerRecv(w) ==
    /\ tasks[w].pc = "idle"
    /\ chans[w].queue # <<>>
    /\ LET got == next_message(chans[w])
           job == got.msg
           gated == backoff(tasks[w].errors, tasks[w].last_request, now)
       IN  /\ chans' = [chans EXCEPT ![w] = got.chan]
           /\ tasks' = IF gated THEN tasks
                       ELSE [tasks EXCEPT ![w] = start_request(@, job, now)]
           /\ hist' = [hist EXCEPT ![w].handled =
                          Append(@, [job |-> job,
                                     act |-> IF gated THEN "skip" ELSE "relay",
                                     at |-> now,
                                     fails |-> hist[w].fails])]
    /\ UNCHANGED <<stream, streamOpen, nextUri, env, now, disp, workers, metrics,
                   note, journal, rejected>>

\* a failed delivery put back into the mailbox to be tried again
SendErr_requeue(w) ==
    /\ tasks[w].pc = "sending"
    /\ tasks[w].inbox \notin env.stalled
    /\ env.answers > 0
    /\ env' = [env EXCEPT !.answers = @ - 1]
    /\ tasks' = [tasks EXCEPT ![w] = on_failure(@)]
    /\ chans' = [chans EXCEPT ![w].queue = Append(@, tasks[w].job[1])]
    /\ hist' = [hist EXCEPT ![w].fails = @ + 1]
    /\ UNCHANGED <<stream, streamOpen, nextUri, now, disp, workers, metrics,
                   note, journal, rejected>>

\* relay.rs:91-96: send_raw returns an error
SendErr(w) ==
    /\ tasks[w].pc = "sending"
    /\ tasks[w].inbox \notin env.stalled
    /\ env.answers > 0
    /\ env' = [env EXCEPT !.answers = @ - 1]
    /\ tasks' = [tasks EXCEPT ![w] = on_failure(@)]
    /\ hist' = [hist EXCEPT ![w].fails = @ + 1]
    /\ UNCHANGED <<stream, streamOpen, nextUri, now, disp, workers, chans, metrics,
                   note, journal, rejected>>

\* relay.rs:97-105: send_raw succeeds and the watchdog is notified
SendOk(w) ==
    /\ tasks[w].pc = "sending"
    /\ tasks[w].inbox \notin env.stalled
    /\ env.answers > 0
    /\ env' = [env EXCEPT !.answers = @ - 1]
    /\ tasks' = [tasks EXCEPT ![w] = on_success(@)]
    /\ hist' = [hist EXCEPT ![w].fails = 0]
    /\ UNCHANGED <<stream, streamOpen, nextUri, now, disp, workers, chans, metrics,
                   note, journal, rejected>>

\* relay.rs:97-104: send_raw succeeds, systemd::daemon::notify returns an
\* error and unwrap panics; the task ends and its Receiver is dropped
SendOkNotifyErr(w) ==
    /\ tasks[w].pc = "sending"
    /\ tasks[w].inbox \notin env.stalled
    /\ env.answers > 0
    /\ env' = [env EXCEPT !.answers = @ - 1]
    /\ tasks' = [tasks EXCEPT ![w] = [on_success(@) EXCEPT !.pc = "dead"]]
    /\ chans' = [chans EXCEPT ![w] = drop_rx(@)]
    /\ hist' = [hist EXCEPT ![w].fails = 0]
    /\ UNCHANGED <<stream, streamOpen, nextUri, now, disp, workers, metrics,
                   note, journal, rejected>>

\* relay.rs:79 and 108: every Sender is gone and the channel is empty, next
\* returns None and the worker panics with "Worker dead"
WorkerDead(w) ==
    /\ tasks[w].pc = "idle"
    /\ chans[w].queue = <<>>
    /\ ~chans[w].tx
    /\ tasks' = [tasks EXCEPT ![w].pc = "dead"]
    /\ chans' = [chans EXCEPT ![w] = drop_rx(@)]
    /\ UNCHANGED <<stream, streamOpen, nextUri, env, now, disp, workers, metrics,
                   note, journal, rejected, hist>>

\* time passes.  The clock is read only against a worker's last_request
\* (relay.rs:81), so its steps before the first delivery starts cannot be
\* observed and are left out
Tick ==
    /\ env.ticks > 0
    /\ \E w \in DOMAIN tasks : tasks[w].last_request # None
    /\ env' = [env EXCEPT !.ticks = @ - 1]
    /\ now' = now + TickSecs
    /\ UNCHANGED <<stream, streamOpen, nextUri, disp, workers, chans, tasks, metrics,
                   note, journal, rejected, hist>>

----------------------------------------------------------------------------
(* The system from its construction *)

\* the environment of a run: the payloads the feed will send, the ticks of
\* the clock, the delivery calls that will be answered, the inboxes of the
\* follower store, and the inboxes whose server never answers
Env0 == [feed |-> MaxPosts, ticks |-> MaxTicks, answers |-> MaxAnswers,
         inboxes |-> Inboxes, stalled |-> {}]

\* relay.rs:114-124: the Dispatcher is spawned with an empty registry; no
\* payload has been sent
Constructed ==
    /\ stream = <<>>
    /\ streamOpen = TRUE
    /\ nextUri = 1
    /\ now = 0
    /\ disp = Receiving
    /\ workers = <<>>
    /\ chans = <<>>
    /\ tasks = <<>>
    /\ metrics = [skip |-> 0, no_relay |-> 0, relay |-> 0, duration |-> 0]
    /\ note = NoNote
    /\ journal = <<>>
    /\ rejected = {}
    /\ hist = <<>>

Init == env = Env0 /\ Constructed

Next ==
    \/ FeedSend
    \/ FeedClose
    \/ RecvMalformed
    \/ RecvSkip
    \/ RecvPost
    \/ LookupOk
    \/ LookupErr
    \/ RecvClosed
    \/ Tick
    \/ \E w \in DOMAIN tasks : WorkerRecv(w)
    \/ \E w \in DOMAIN tasks : SendErr(w)
    \/ \E w \in DOMAIN tasks : SendOk(w)
    \/ \E w \in DOMAIN tasks : SendOkNotifyErr(w)
    \/ \E w \in DOMAIN tasks : WorkerDead(w)

Spec == Init /\ [][Next]_vars

----------------------------------------------------------------------------
(* Scheduling *)

\* the worker tasks a run can have: the registry spawns one per inbox
WorkerIds == 1..Cardinality(Inboxes)

\* The tokio runtime polls every task that is ready: the Dispatcher when a
\* payload waits or the stream is closed, a worker when a job waits or its
\* channel is closed.  The follower store answers every lookup, and a server
\* that is not stalled answers every delivery call.  Nothing is assumed of
\* the feed or the clock.
Fairness ==
    /\ WF_vars(RecvMalformed \/ RecvSkip \/ RecvPost \/ RecvClosed)
    /\ WF_vars(LookupOk \/ LookupErr)
    /\ \A w \in WorkerIds :
          /\ WF_vars(w \in DOMAIN tasks /\ (WorkerRecv(w) \/ WorkerDead(w)))
          /\ WF_vars(w \in DOMAIN tasks /\ (SendErr(w) \/ SendOk(w) \/ SendOkNotifyErr(w)))

\* the system from its construction, fairly scheduled
SpecFair == Init /\ [][Next]_vars /\ Fairness

----------------------------------------------------------------------------
(* One destination, observed for longer *)

\* the follower store holds one inbox; the feed, the clock and the remote
\* server go on for longer than in Spec
EnvWorker == [feed |-> MaxPosts + 1, ticks |-> MaxTicks + 3, answers |-> MaxAnswers + 1,
              inboxes |-> {InboxB}, stalled |-> {}]

InitWorker == env = EnvWorker /\ Constructed

SpecWorker == InitWorker /\ [][Next]_vars

----------------------------------------------------------------------------
(* A burst to a destination that does not answer *)

\* the n-th post of the burst and its job: a post of a.example without tags
BurstPost(n) == [valid |-> TRUE, url |-> Some(GoodUrl), uri |-> n, tags |-> <<>>]
BurstActor == relay_targets(BurstPost(1), Hostname)[1]
BurstJob(n) == NewJob(BurstPost(n), GoodUrl, BurstActor)

\* the posts relayed before the observed part of the run
BurstLen == ChannelBuffer + 1

EnvBurst == [Env0 EXCEPT !.stalled = {InboxB}]

\* The state after the Dispatcher has relayed BurstLen posts of a.example to
\* InboxB, its only follower: the worker of InboxB took the first job, whose
\* delivery call has not returned, and the other ChannelBuffer jobs wait in
\* its channel.
InitBurst ==
    /\ stream = <<>>
    /\ streamOpen = TRUE
    /\ nextUri = BurstLen + 1
    /\ env = EnvBurst
    /\ now = 0
    /\ disp = Receiving
    /\ workers = (InboxB :> 1)
    /\ chans = <<[channel EXCEPT !.queue = [k \in 1..ChannelBuffer |-> BurstJob(k + 1)]]>>
    /\ tasks = <<start_request(NewTask(InboxB), BurstJob(1), 0)>>
    /\ metrics = [skip |-> 0, no_relay |-> 0, relay |-> BurstLen, duration |-> BurstLen]
    /\ note = [uri |-> BurstLen, kind |-> "post", phase |-> "done",
               lookups |-> <<[actor |-> BurstActor, inboxes |-> {InboxB}]>>,
               built |-> <<[inbox |-> InboxB, job |-> BurstJob(BurstLen),
                            worker |-> 1, accepted |-> TRUE]>>,
               spawned |-> <<>>,
               base |-> [skip |-> 0, no_relay |-> 0, relay |-> BurstLen - 1,
                         duration |-> BurstLen - 1]]
    /\ journal = [k \in 1..BurstLen |-> [uri |-> k, outcome |-> "relay"]]
    /\ rejected = {}
    /\ hist = <<[accepted |-> [k \in 1..BurstLen |-> BurstJob(k)],
                 handled |-> <<[job |-> BurstJob(1), act |-> "relay", at |-> 0,
                                fails |-> 0]>>,
                 fails |-> 0]>>

SpecBurst == InitBurst /\ [][Next]_vars

----------------------------------------------------------------------------
(* A post with several tags *)

\* a post of a.example with two tags, each written twice
TagsPost == [valid |-> TRUE, url |-> Some(GoodUrl), uri |-> 1,
             tags |-> <<"news", "Rust", "news", "rust">>]

EnvTags == [Env0 EXCEPT !.feed = MaxPosts - 1]

\* the feed has sent TagsPost as its first payload, which waits in the stream
InitTags ==
    /\ stream = <<TagsPost>>
    /\ streamOpen = TRUE
    /\ nextUri = 2
    /\ env = EnvTags
    /\ now = 0
    /\ disp = Receiving
    /\ workers = <<>>
    /\ chans = <<>>
    /\ tasks = <<>>
    /\ metrics = [skip |-> 0, no_relay |-> 0, relay |-> 0, duration |-> 0]
    /\ note = NoNote
    /\ journal = <<>>
    /\ rejected = {}
    /\ hist = <<>>

SpecTags == InitTags /\ [][Next]_vars

----------------------------------------------------------------------------
(* A worker whose failure counter is at its ceiling *)

EnvSat == [Env0 EXCEPT !.feed = MaxPosts + 1, !.answers = MaxAnswers + 1,
                       !.inboxes = {InboxB}]

\* The state of a run in which the worker of InboxB, the only inbox of the
\* follower store, has failed e times in a row, e at or next to the ceiling
\* of the counter, and the cool-down of its latest attempt has just ended.
CeilingState ==
    /\ stream = <<>>
    /\ streamOpen = TRUE
    /\ nextUri = 2
    /\ \E e \in {ErrorsMax - 1, ErrorsMax} :
         /\ now = BackoffSecs * e
         /\ tasks = <<[NewTask(InboxB) EXCEPT !.errors = e, !.last_request = Some(0)]>>
         /\ hist = <<[accepted |-> <<BurstJob(1)>>,
                      handled |-> <<[job |-> BurstJob(1), act |-> "relay", at |-> 0,
                                     fails |-> e - 1]>>,
                      fails |-> e]>>
    /\ disp = Receiving
    /\ workers = (InboxB :> 1)
    /\ chans = <<channel>>
    /\ metrics = [skip |-> 0, no_relay |-> 0, relay |-> 1, duration |-> 1]
    /\ note = [uri |-> 1, kind |-> "post", phase |-> "done",
               lookups |-> <<[actor |-> BurstActor, inboxes |-> {InboxB}]>>,
               built |-> <<[inbox |-> InboxB, job |-> BurstJob(1),
                            worker |-> 1, accepted |-> TRUE]>>,
               spawned |-> <<>>,
               base |-> [skip |-> 0, no_relay |-> 0, relay |-> 0, duration |-> 0]]
    /\ journal = <<[uri |-> 1, outcome |-> "relay"]>>
    /\ rejected = {}

InitCeiling == env = EnvSat /\ CeilingState

\* the system from its construction, or with the counter at its ceiling
InitSat == (env = EnvSat /\ Constructed) \/ InitCeiling

SpecSat == InitSat /\ [][Next]_vars

\* the same two starts with the longer run of EnvWorker, in which jobs arrive
\* before, at and after the end of the cool-downs of one failure and more
InitBackoff == env = EnvWorker /\ (Constructed \/ CeilingState)

SpecBackoff == InitBackoff /\ [][Next]_vars

----------------------------------------------------------------------------
(* What the histories say *)

\* the inboxes the lookups of the latest post have returned so far
Returned == UNION {note.lookups[k].inboxes : k \in DOMAIN note.lookups}

\* the jobs built for inbox i while handling the latest post
BuiltFor(i) == {k \in DOMAIN note.built : note.built[k].inbox = i}

\* the jobs built for inbox i in the name of identity a
BuiltForPair(a, i) ==
    {k \in BuiltFor(i) : note.built[k].job.actor_id = uri(a)}

\* the lookup of index k is the first of the post that returned inbox i
FirstToReturn(k, i) ==
    /\ i \in note.lookups[k].inboxes
    /\ \A j \in 1..(k - 1) : i \notin note.lookups[j].inboxes

\* the jobs of a history of handled jobs
JobsOf(handled) == [k \in DOMAIN handled |-> handled[k].job]

\* the index of the latest attempt before entry k of a history, 0 if none
PrevAttempt(handled, k) ==
    LET before == {j \in 1..(k - 1) : handled[j].act = "relay"}
    IN  IF before = {} THEN 0 ELSE CHOOSE j \in before : \A x \in before : x <= j

\* the workers with a delivery to inbox i in flight
InFlight(i) == {w \in DOMAIN tasks : tasks[w].pc = "sending" /\ tasks[w].inbox = i}

----------------------------------------------------------------------------
(* The claims *)

\* C1: while a notification is processed, every inbox returned by at least
\* one of its follower lookups has exactly one DeliveryJob built for it, and
\* an inbox no lookup returned has none, however many identities it follows
\* and however often a lookup result names it.
C1_OneJobPerInbox ==
    \A i \in Inboxes :
        Cardinality(BuiltFor(i)) = IF i \in Returned THEN 1 ELSE 0

\* C1 witness: a finished notification of two identities whose lookups both
\* returned the same inbox.
C1_Witness ==
    /\ note.phase = "done"
    /\ Len(note.lookups) = 2
    /\ note.lookups[1].actor.kind.variant = "instance"
    /\ note.lookups[2].actor.kind.variant = "tag"
    /\ \E i \in Inboxes :
         /\ i \in note.lookups[1].inboxes \cap note.lookups[2].inboxes
         /\ Cardinality(BuiltFor(i)) = 1

\* C2 as claimed: every (identity, inbox) pair a lookup returned has exactly
\* one DeliveryJob of its own.
C2_JobPerPair ==
    \A k \in DOMAIN note.lookups : \A i \in note.lookups[k].inboxes :
        Cardinality(BuiltForPair(note.lookups[k].actor, i)) = 1

\* C2 amended: a pair (identity, inbox) a lookup returned has exactly one
\* DeliveryJob when no lookup of an earlier identity of the notification
\* returned the inbox, and none otherwise; every job built goes to the one
\* worker spawned for its inbox, which is the registry's entry for it while
\* the Dispatcher lives.
C2_JobPerFirstPair ==
    /\ \A k \in DOMAIN note.lookups : \A i \in note.lookups[k].inboxes :
          Cardinality(BuiltForPair(note.lookups[k].actor, i))
              = IF FirstToReturn(k, i) THEN 1 ELSE 0
    /\ \A k \in DOMAIN note.built :
          LET b == note.built[k]
          IN  /\ b.worker \in DOMAIN tasks
              /\ {w \in DOMAIN tasks : tasks[w].inbox = b.inbox} = {b.worker}
              /\ disp.pc \in {"recv", "lookup"} =>
                    /\ b.inbox \in DOMAIN workers
                    /\ workers[b.inbox] = b.worker

\* C2 witness: a finished notification whose second identity is followed by
\* an inbox the first identity's lookup had returned and by a new one.
C2_Witness ==
    /\ note.phase = "done"
    /\ Len(note.lookups) = 2
    /\ note.lookups[1].inboxes = {InboxB}
    /\ note.lookups[2].inboxes = {InboxB, InboxC}
    /\ Len(note.built) = 2
    /\ note.built[1].job.actor_id = uri(note.lookups[1].actor)
    /\ note.built[2].job.actor_id = uri(note.lookups[2].actor)

\* C3: for every worker, the jobs it has handled are, in order, the first
\* jobs accepted into its mailbox, so its delivery attempts follow the order
\* of acceptance with the jobs the backoff gate dropped left out; and no
\* inbox has two delivery attempts in flight together.
C3_OrderedOneAtATime ==
    /\ \A w \in DOMAIN tasks :
          /\ Len(hist[w].handled) <= Len(hist[w].accepted)
          /\ JobsOf(hist[w].handled)
                = SubSeq(hist[w].accepted, 1, Len(hist[w].handled))
          /\ tasks[w].pc = "sending" =>
                /\ hist[w].handled # <<>>
                /\ hist[w].handled[Len(hist[w].handled)].act = "relay"
                /\ tasks[w].job = Some(hist[w].handled[Len(hist[w].handled)].job)
    /\ \A i \in Inboxes : Cardinality(InFlight(i)) <= 1

\* C3 witness: a worker's second delivery attempt is in flight, after a job
\* accepted second, while the other inbox has a delivery in flight too.
C3_Witness ==
    \E w \in DOMAIN tasks :
        /\ Len(hist[w].handled) = 2
        /\ hist[w].handled[1].act = "relay"
        /\ tasks[w].pc = "sending"
        /\ tasks[w].job = Some(hist[w].accepted[2])
        /\ \E v \in DOMAIN tasks : v # w /\ tasks[v].pc = "sending"

\* the seconds between entry k of a history and the attempt before it
SinceAttempt(handled, k) == handled[k].at - handled[PrevAttempt(handled, k)].at

\* entry k of a history is a job received after N >= 1 failures in a row and
\* sooner than 10*N seconds after the latest attempt
InCoolDown(handled, k) ==
    /\ handled[k].fails >= 1
    /\ PrevAttempt(handled, k) # 0
    /\ SinceAttempt(handled, k) < BackoffSecs * handled[k].fails

\* C4: a job a worker receives after N >= 1 consecutive failures and sooner
\* than 10*N seconds after its latest delivery attempt is dropped: no
\* delivery of it starts, it is not put back into the mailbox, and it is
\* never handled again.
C4_DroppedInCoolDown ==
    \A w \in DOMAIN tasks :
        LET handled == hist[w].handled
        IN  \A k \in DOMAIN handled :
                InCoolDown(handled, k) =>
                    /\ handled[k].act = "skip"
                    /\ tasks[w].job # Some(handled[k].job)
                    /\ \A q \in DOMAIN chans[w].queue :
                          chans[w].queue[q] # handled[k].job
                    /\ \A j \in DOMAIN handled : j # k => handled[j].job # handled[k].job

\* C4 witness: after two failures in a row a worker has dropped a job that
\* came 10 seconds after its latest attempt, which one failure alone would
\* have let through, and has handled a later job.
C4_Witness ==
    \E w \in DOMAIN tasks :
        \E k \in DOMAIN hist[w].handled :
            /\ hist[w].handled[k].fails = 2
            /\ InCoolDown(hist[w].handled, k)
            /\ SinceAttempt(hist[w].handled, k) = BackoffSecs
            /\ hist[w].handled[k].act = "skip"

\* a step in which worker w drops a job at the backoff gate
DropStep(w) ==
    /\ Len(hist'[w].handled) = Len(hist[w].handled) + 1
    /\ hist'[w].handled[Len(hist'[w].handled)].act = "skip"

\* C5: a worker's errorCount is the number of failed delivery attempts since
\* its latest success, or since it was spawned, capped at the ceiling of the
\* counter (so a failure adds one or leaves it at the ceiling, and a success
\* sets it to 0); a job dropped at the backoff gate changes neither
\* errorCount nor lastAttempt.
C5_ErrorCount ==
    /\ [](\A w \in DOMAIN tasks : tasks[w].errors = Min(hist[w].fails, ErrorsMax))
    /\ [][\A w \in DOMAIN tasks :
            DropStep(w) =>
                /\ tasks'[w].errors = tasks[w].errors
                /\ tasks'[w].last_request = tasks[w].last_request]_vars

\* C5 witness: a worker that has failed more often than the counter's
\* ceiling has the counter at the ceiling, and has dropped a job since.
C5_Witness ==
    \E w \in DOMAIN tasks :
        /\ hist[w].fails > ErrorsMax
        /\ tasks[w].errors = ErrorsMax
        /\ hist[w].handled[Len(hist[w].handled)].act = "skip"

\* C6 as claimed: no mailbox ever holds more than 1024 pending jobs.
C6_AtMostBuffer ==
    \A w \in DOMAIN chans : Len(chans[w].queue) <= ChannelBuffer

\* C6 amended: no mailbox ever holds more than 1025 pending jobs, the 1024
\* of the channel's buffer and the one slot the channel guarantees to its
\* single Sender.
C6_AtMostBufferAndSender ==
    \A w \in DOMAIN chans : Len(chans[w].queue) <= ChannelBuffer + 1

\* C6 witness: a mailbox holds 1025 pending jobs, and its sender is parked.
C6_Witness ==
    \E w \in DOMAIN chans :
        /\ Len(chans[w].queue) = ChannelBuffer + 1
        /\ chans[w].parked

\* the jobs built in this step of the Dispatcher, as indexes of note'.built
NewBuilt ==
    IF note'.uri = note.uri /\ Len(note'.built) > Len(note.built)
    THEN (Len(note.built) + 1)..Len(note'.built)
    ELSE {}

\* C7: a job submitted to a worker whose mailbox is full is refused without
\* blocking the Dispatcher: the mailbox keeps its jobs and their order, the
\* Dispatcher ends the step at its next suspension point with a job built
\* for every inbox the lookup returned, and a refused job is never in a
\* mailbox, in flight, or handled by a worker.
C7_FullMailboxDropsNewest ==
    /\ [][\A k \in NewBuilt :
            LET e == note'.built[k]
            IN  (e.worker \in DOMAIN chans /\ chans[e.worker].parked) =>
                    /\ ~e.accepted
                    /\ chans'[e.worker].queue = chans[e.worker].queue
                    /\ [worker |-> e.worker, job |-> e.job] \in rejected'
                    /\ disp'.pc \in {"recv", "lookup"}
                    /\ note'.lookups[Len(note'.lookups)].inboxes
                          \subseteq {note'.built[j].inbox : j \in DOMAIN note'.built}]_vars
    /\ [](\A r \in rejected :
            /\ \A q \in DOMAIN chans[r.worker].queue : chans[r.worker].queue[q] # r.job
            /\ tasks[r.worker].job # Some(r.job)
            /\ \A h \in DOMAIN hist[r.worker].handled :
                  hist[r.worker].handled[h].job # r.job)

\* C7 witness: in one step the Dispatcher had a job refused by the full
\* mailbox of one inbox and the next job accepted by the mailbox of another.
C7_Witness ==
    \E k \in DOMAIN note.built : \E j \in DOMAIN note.built :
        /\ k < j
        /\ note.lookups[Len(note.lookups)].inboxes = {InboxB, InboxC}
        /\ ~note.built[k].accepted
        /\ Len(chans[note.built[k].worker].queue) = ChannelBuffer + 1
        /\ [worker |-> note.built[k].worker, job |-> note.built[k].job] \in rejected
        /\ note.built[j].accepted
        /\ note.built[j].inbox # note.built[k].inbox

\* no job of the post with this uri is in a mailbox, was accepted, refused
\* or handled, or is in flight
NoJobOf(u) ==
    /\ \A w \in DOMAIN chans :
          /\ \A q \in DOMAIN chans[w].queue : chans[w].queue[q].body.object # u
          /\ \A q \in DOMAIN hist[w].accepted : hist[w].accepted[q].body.object # u
          /\ \A q \in DOMAIN hist[w].handled : hist[w].handled[q].job.body.object # u
          /\ tasks[w].job # None => tasks[w].job[1].body.object # u
    /\ \A r \in rejected : r.job.body.object # u

\* a step in which the Dispatcher receives a post that parses and has no url
ReshareStep ==
    /\ disp.pc = "recv"
    /\ stream # <<>>
    /\ Head(stream).valid
    /\ Head(stream).url = None
    /\ stream' = Tail(stream)

\* C8: receiving a notification that parses and has no url adds one to the
\* skip counter and changes nothing else: the Dispatcher starts no lookup,
\* no worker is spawned, no job is built or submitted; and no job of such a
\* notification ever exists, so no delivery of it is attempted.
C8_ReshareSkipped ==
    /\ [][ReshareStep =>
            /\ disp' = disp
            /\ metrics' = [metrics EXCEPT !.skip = @ + 1]
            /\ UNCHANGED <<workers, chans, tasks, hist, rejected>>
            /\ note'.lookups = <<>> /\ note'.built = <<>> /\ note'.spawned = <<>>]_vars
    /\ [](\A k \in DOMAIN journal :
            journal[k].outcome = "skip" => NoJobOf(journal[k].uri))

\* C8 witness: a reshare has been skipped after an earlier post was relayed
\* to a worker.
C8_Witness ==
    /\ note.kind = "reshare"
    /\ note.phase = "done"
    /\ metrics.skip = note.base.skip + 1
    /\ \E w \in DOMAIN tasks : hist[w].accepted # <<>>

\* the lookups of the latest post have all returned no inbox
NoInboxReturned == \A k \in DOMAIN note.lookups : note.lookups[k].inboxes = {}

\* C9: when a notification with a url is finished and its identities map to
\* no inbox (it has no identity, or every lookup returned nothing), no_relay
\* has been incremented exactly once and the other outcome counters not, no
\* job was built, and no job of a notification counted as no_relay exists.
C9_NoRelay ==
    /\ (note.phase = "done" /\ note.kind = "post" /\ NoInboxReturned) =>
          /\ metrics.no_relay = note.base.no_relay + 1
          /\ metrics.skip = note.base.skip
          /\ metrics.relay = note.base.relay
          /\ note.built = <<>>
          /\ journal[Len(journal)] = [uri |-> note.uri, outcome |-> "no_relay"]
    /\ \A k \in DOMAIN journal :
          journal[k].outcome = "no_relay" => NoJobOf(journal[k].uri)

\* C9 witness: a notification whose two identities both have no follower is
\* finished, after an earlier post was relayed to a worker.
C9_Witness ==
    /\ note.phase = "done"
    /\ note.kind = "post"
    /\ Len(note.lookups) = 2
    /\ NoInboxReturned
    /\ metrics.no_relay = 1
    /\ metrics.relay = 1

\* exactly one of the outcome counters has been incremented, by one, since
\* the latest notification was received
OneOutcomeCounted ==
    /\ metrics.skip >= note.base.skip
    /\ metrics.no_relay >= note.base.no_relay
    /\ metrics.relay >= note.base.relay
    /\ metrics.skip + metrics.no_relay + metrics.relay
          = note.base.skip + note.base.no_relay + note.base.relay + 1

\* C10 as claimed: every notification that parses and is finished has
\* caused one increment of one outcome counter and one duration measurement.
C10_OutcomeAndDuration ==
    (note.phase = "done") =>
        /\ OneOutcomeCounted
        /\ metrics.duration = note.base.duration + 1

\* C10 amended: every notification that parses and is finished has caused
\* one increment of one outcome counter, skip exactly for a notification
\* without url; a duration measurement is made once for the outcomes
\* no_relay and relay, and not at all for skip.
C10_OutcomeAndDurationUnlessSkip ==
    (note.phase = "done") =>
        /\ OneOutcomeCounted
        /\ (metrics.skip = note.base.skip + 1) <=> (note.kind = "reshare")
        /\ metrics.duration
              = note.base.duration + (IF note.kind = "reshare" THEN 0 ELSE 1)

\* C10 witness: a skipped notification left the duration histogram as it
\* was, after a relayed one had added a sample.
C10_Witness ==
    /\ note.phase = "done"
    /\ note.kind = "reshare"
    /\ metrics.skip = 1
    /\ metrics.relay = 1
    /\ metrics.duration = 1
    /\ note.base.duration = 1

\* the latest notification has been counted as relay
CountedRelay == note.phase = "done" /\ metrics.relay = note.base.relay + 1

\* a job of the latest notification was accepted into a mailbox
SomeAccepted == \E k \in DOMAIN note.built : note.built[k].accepted

\* C11 as claimed: a notification is counted as relay only if at least one
\* of its DeliveryJobs was accepted into a worker's mailbox.
C11_RelayOnlyIfAccepted == CountedRelay => SomeAccepted

\* C11 amended: a finished notification with a url is counted as relay
\* exactly when a follower lookup returned at least one inbox for it, that
\* is, when a DeliveryJob was built and submitted for it, whether a mailbox
\* accepted the job or not; otherwise it is counted as no_relay.
C11_RelayIffResolved ==
    (note.phase = "done" /\ note.kind = "post") =>
        /\ (metrics.relay = note.base.relay + 1) <=> (Returned # {})
        /\ (metrics.relay = note.base.relay + 1) <=> (note.built # <<>>)
        /\ (metrics.no_relay = note.base.no_relay + 1) <=> (Returned = {})

\* C11 witness: a notification is counted as relay although the only job
\* built for it was refused by its mailbox.
C11_Witness ==
    /\ CountedRelay
    /\ Len(note.built) = 1
    /\ ~note.built[1].accepted
    /\ [worker |-> note.built[1].worker, job |-> note.built[1].job] \in rejected

\* a follower lookup has failed
LookupFailed == \E k \in DOMAIN journal : journal[k].outcome = "panic"

\* s is t, or t with one element appended
SameOrAppended(s, t) ==
    \/ s = t
    \/ Len(s) = Len(t) + 1 /\ SubSeq(s, 1, Len(t)) = t

\* C12: a failed follower lookup ends the Dispatcher: at the failure no
\* further inbox or identity of the notification is expanded and the jobs in
\* the mailboxes stay queued; from then on the Dispatcher is terminated, no
\* outcome counter or duration is recorded for the notification, no item of
\* the feed is received, no job is built or accepted and no worker spawned.
C12_LookupFailureFatal ==
    /\ [](LookupFailed =>
            /\ disp.pc = "panicked"
            /\ workers = <<>>
            /\ metrics = note.base
            /\ journal[Len(journal)] = [uri |-> note.uri, outcome |-> "panic"])
    /\ [][(~LookupFailed /\ LookupFailed') =>
            /\ \A w \in DOMAIN chans : chans'[w].queue = chans[w].queue
            /\ note'.built = note.built
            /\ note'.lookups = note.lookups
            /\ UNCHANGED <<stream, tasks, hist, rejected, metrics>>]_vars
    /\ [][LookupFailed =>
            /\ SameOrAppended(stream', stream)
            /\ Len(chans') = Len(chans)
            /\ \A w \in DOMAIN hist : hist'[w].accepted = hist[w].accepted
            /\ UNCHANGED <<disp, metrics, note, journal, rejected>>]_vars

\* C12 witness: the second lookup of a notification failed after the first
\* had a job accepted that is still queued, and a later item of the feed
\* waits unreceived.
C12_Witness ==
    /\ disp.pc = "panicked"
    /\ Len(note.lookups) = 1
    /\ stream # <<>>
    /\ \E w \in DOMAIN chans :
         /\ ~chans[w].tx
         /\ chans[w].queue # <<>>
         /\ chans[w].queue[1].body.object = note.uri

\* a step in which the Dispatcher receives a payload that does not parse
MalformedStep ==
    /\ disp.pc = "recv"
    /\ stream # <<>>
    /\ ~Head(stream).valid
    /\ stream' = Tail(stream)

\* C13: receiving a payload that does not parse changes nothing but the
\* stream, from which the payload is gone: the Dispatcher is where it was,
\* awaiting the next item, with the registry, the mailboxes, the workers and
\* the counters as before, so that it goes on as if the payload had not been
\* sent; no lookup is made and no job of the payload ever exists.
C13_MalformedDropped ==
    /\ [][MalformedStep =>
            /\ disp' = disp
            /\ UNCHANGED <<workers, chans, tasks, metrics, hist, rejected>>
            /\ note'.lookups = <<>> /\ note'.built = <<>> /\ note'.spawned = <<>>]_vars
    /\ [](\A k \in DOMAIN journal :
            journal[k].outcome = "parse_error" => NoJobOf(journal[k].uri))

\* C13 witness: the Dispatcher has relayed the post that followed a
\* malformed payload.
C13_Witness ==
    /\ Len(journal) = 2
    /\ journal[1].outcome = "parse_error"
    /\ journal[2].outcome = "relay"
    /\ disp.pc = "recv"
    /\ \E w \in DOMAIN chans : chans[w].queue # <<>>

\* the payloads handled so far are the first payloads sent, in their order
HandledInOrder == \A k \in DOMAIN journal : journal[k].uri = k

\* C14: the Dispatcher's loop ends only when the feed is closed and every
\* payload sent before has been handled, in the order sent; the Dispatcher
\* terminates in no other way unless a lookup failed; and once the feed is
\* closed the loop does end, unless a lookup fails.
C14_EndsWhenClosed ==
    /\ [](HandledInOrder)
    /\ [](disp.pc = "done" =>
            /\ ~streamOpen
            /\ stream = <<>>
            /\ Len(journal) = nextUri - 1
            /\ ~LookupFailed
            /\ note.phase # "active")
    /\ [](disp.pc \notin {"recv", "lookup", "done"} => LookupFailed)
    /\ [][disp.pc = "done" => disp' = disp]_vars
    /\ (~streamOpen) ~> (disp.pc = "done" \/ LookupFailed)

\* C14 witness: the loop has ended after two payloads that were still in the
\* stream when the feed was closed.
C14_Witness ==
    /\ disp.pc = "done"
    /\ Len(journal) = 2
    /\ journal[2].outcome = "relay"
    /\ \E w \in DOMAIN chans : ~chans[w].tx /\ chans[w].queue # <<>>

\* the mailbox of an inbox whose server never answers is full
StalledAndFull ==
    \E a \in DOMAIN tasks :
        /\ tasks[a].inbox \in env.stalled
        /\ tasks[a].pc = "sending"
        /\ chans[a].parked

\* C15 as claimed, in the form a finite run refutes: every job accepted into
\* the mailbox of an inbox whose server answers is eventually taken out by
\* its worker, so while another inbox is stalled with a full mailbox no such
\* worker has ended leaving accepted jobs it never took; and the Dispatcher
\* is never held up: it is at one of its suspension points and has built a
\* job for every inbox its lookups returned.
C15_OthersProgress ==
    StalledAndFull =>
        /\ disp.pc \in {"recv", "lookup"} =>
              Returned \subseteq {note.built[k].inbox : k \in DOMAIN note.built}
        /\ \A w \in DOMAIN tasks :
              (tasks[w].inbox \notin env.stalled /\ tasks[w].pc = "dead") =>
                  Len(hist[w].handled) = Len(hist[w].accepted)

\* the workers ever spawned for inbox i
SpawnedFor(i) == {w \in DOMAIN tasks : tasks[w].inbox = i}

\* the Dispatcher's task has not ended
DispatcherLives == disp.pc \in {"recv", "lookup"}

\* C16: at most one worker is ever spawned per inbox; while the Dispatcher
\* lives the registry holds exactly the workers spawned, each under its
\* inbox, and no step removes or replaces an entry or a worker; a worker is
\* spawned in the step that builds the first job for its inbox, and every
\* job built goes to the worker of its inbox; a job built for an inbox whose
\* worker has ended is submitted to that same worker's channel and refused.
C16_OneWorkerPerInbox ==
    /\ [](\A i \in Inboxes : Cardinality(SpawnedFor(i)) <= 1)
    /\ [](DispatcherLives =>
            /\ DOMAIN workers = {tasks[w].inbox : w \in DOMAIN tasks}
            /\ \A w \in DOMAIN tasks : workers[tasks[w].inbox] = w)
    /\ [][/\ Len(tasks') >= Len(tasks)
          /\ \A w \in DOMAIN tasks : tasks'[w].inbox = tasks[w].inbox
          /\ DispatcherLives' =>
                \A i \in DOMAIN workers : i \in DOMAIN workers' /\ workers'[i] = workers[i]
          /\ \A w \in DOMAIN tasks' \ DOMAIN tasks :
                \E k \in NewBuilt :
                    /\ note'.built[k].worker = w
                    /\ note'.built[k].inbox = tasks'[w].inbox
                    /\ \A j \in 1..(k - 1) : note'.built[j].inbox # tasks'[w].inbox
          /\ \A k \in NewBuilt :
                LET e == note'.built[k]
                IN  /\ e.worker \in DOMAIN tasks'
                    /\ tasks'[e.worker].inbox = e.inbox
                    /\ SpawnedFor(e.inbox) # {} => e.worker \in SpawnedFor(e.inbox)
                    /\ (e.worker \in DOMAIN tasks /\ tasks[e.worker].pc = "dead") =>
                          /\ ~e.accepted
                          /\ [worker |-> e.worker, job |-> e.job] \in rejected'
                          /\ chans'[e.worker].queue = <<>>]_vars

\* C16 witness: while the Dispatcher lives, a job for an inbox whose worker
\* had ended was refused, and the inbox still has its one, ended worker.
C16_Witness ==
    /\ DispatcherLives
    /\ \E r \in rejected :
         /\ tasks[r.worker].pc = "dead"
         /\ workers[tasks[r.worker].inbox] = r.worker
         /\ SpawnedFor(tasks[r.worker].inbox) = {r.worker}
         /\ r.job.body.object = note.uri

\* C17 as claimed: a worker that has terminated had its mailbox closed by
\* its owner, the Dispatcher having ended and dropped the registry, and had
\* taken every job accepted into its mailbox.
C17_EndsOnlyWhenClosed ==
    \A w \in DOMAIN tasks :
        tasks[w].pc = "dead" =>
            /\ ~DispatcherLives
            /\ ~chans[w].tx
            /\ Len(hist[w].handled) = Len(hist[w].accepted)

\* the delivery attempts of a history of handled jobs
Attempts(handled) == {k \in DOMAIN handled : handled[k].act = "relay"}

\* C18: every worker has taken each job at most once: the jobs it has
\* handled are distinct, its delivery attempts are no more than the jobs it
\* accepted, and while its receiver exists its mailbox holds exactly the
\* accepted jobs not yet taken, so a job that failed or was dropped at the
\* backoff gate is not in the mailbox again; a job a mailbox refused is not
\* in that mailbox and was never accepted by it.
C18_AtMostOnce ==
    /\ \A w \in DOMAIN tasks :
          LET handled == hist[w].handled
              accepted == hist[w].accepted
          IN  /\ \A j \in DOMAIN handled : \A k \in DOMAIN handled :
                    handled[j].job = handled[k].job => j = k
              /\ Cardinality(Attempts(handled)) <= Len(accepted)
              /\ chans[w].rx =>
                    chans[w].queue = SubSeq(accepted, Len(handled) + 1, Len(accepted))
              /\ ~chans[w].rx => chans[w].queue = <<>>
              /\ \A k \in DOMAIN handled : \A q \in DOMAIN chans[w].queue :
                    chans[w].queue[q] # handled[k].job
    /\ \A r \in rejected :
          /\ \A q \in DOMAIN chans[r.worker].queue : chans[r.worker].queue[q] # r.job
          /\ \A k \in DOMAIN hist[r.worker].accepted : hist[r.worker].accepted[k] # r.job

\* C18 witness: a worker whose first delivery failed has dropped the next
\* job at the backoff gate and waits with an empty mailbox: two jobs
\* accepted, one attempt.
C18_Witness ==
    \E w \in DOMAIN tasks :
        /\ Len(hist[w].accepted) = 2
        /\ Len(hist[w].handled) = 2
        /\ hist[w].handled[1].act = "relay"
        /\ hist[w].handled[2].act = "skip"
        /\ hist[w].fails = 1
        /\ tasks[w].pc = "idle"
        /\ chans[w].queue = <<>>

\* the errorCount a worker had when it received entry k of its history: the
\* failures in a row before it, up to the counter's ceiling
ErrorCountAt(handled, k) == Min(handled[k].fails, ErrorsMax)

\* the index of the latest delivery attempt of a history, 0 if none
LastAttempt(handled) == PrevAttempt(handled, Len(handled) + 1)

\* C19: a delivery attempt that starts while errorCount = N >= 1 starts at
\* least 10*N seconds after the start of the worker's previous attempt; a
\* job received with errorCount = 0, or at least 10*N seconds after the
\* previous attempt started, is attempted, also when N is the ceiling of the
\* counter; and lastAttempt is the time the latest attempt started, from the
\* moment it starts.
C19_BackoffTiming ==
    \A w \in DOMAIN tasks :
        LET handled == hist[w].handled
        IN  /\ \A k \in DOMAIN handled :
                  LET N == ErrorCountAt(handled, k)
                  IN  IF N >= 1 /\ PrevAttempt(handled, k) # 0
                      THEN (handled[k].act = "relay")
                              <=> (SinceAttempt(handled, k) >= BackoffSecs * N)
                      ELSE handled[k].act = "relay"
            /\ tasks[w].last_request =
                  IF LastAttempt(handled) = 0 THEN None
                  ELSE Some(handled[LastAttempt(handled)].at)

\* C19 witness: a worker at the ceiling of its counter has started a
\* delivery exactly when the cool-down of the ceiling ended, and the call is
\* still in flight with lastAttempt already set to its start.
C19_Witness ==
    \E w \in DOMAIN tasks :
        LET handled == hist[w].handled
            k == Len(handled)
        IN  /\ k >= 2
            /\ handled[k].fails >= ErrorsMax
            /\ tasks[w].errors = ErrorsMax
            /\ SinceAttempt(handled, k) = BackoffSecs * ErrorsMax
            /\ handled[k].act = "relay"
            /\ tasks[w].pc = "sending"
            /\ tasks[w].last_request = Some(now)

\* the tags of a post that name the identity a
TagsNaming(a, post) == {k \in DOMAIN post.tags : ToLowercase(post.tags[k]) = a.kind.value}

\* the place of identity a in the resolver's order for a post: 0 for the
\* identity of the post's host, else the index of the first tag naming it
Rank(a, post) ==
    IF a.kind.variant = "instance" THEN 0
    ELSE CHOOSE k \in TagsNaming(a, post) : \A j \in TagsNaming(a, post) : k <= j

\* a is an identity of the post: that of its host, or that of one of its tags
IdentityOf(a, post) ==
    /\ a.host = Hostname
    /\ IF a.kind.variant = "instance"
       THEN post.url # None /\ UrlDomain(post.url[1]) # None
       ELSE a.kind.variant = "tag" /\ TagsNaming(a, post) # {}

\* C20: the lookups of a notification are made in the resolver's order (the
\* identity of the post's host first, then the identities of its tags in
\* input order), each distinct identity once; the job of an inbox is made in
\* the name of the first identity whose lookup returned the inbox, and its
\* Announce actor, its originating identity URI and its signing key id are
\* those of that one identity.
C20_FirstIdentity ==
    /\ [](\A j \in DOMAIN note.lookups : \A k \in DOMAIN note.lookups :
            note.lookups[j].actor = note.lookups[k].actor => j = k)
    /\ [](\A k \in DOMAIN note.built :
            LET e == note.built[k]
            IN  \E j \in DOMAIN note.lookups :
                    /\ FirstToReturn(j, e.inbox)
                    /\ e.job.actor_id = uri(note.lookups[j].actor)
                    /\ e.job.body.actor = uri(note.lookups[j].actor)
                    /\ e.job.key_id = key_id(note.lookups[j].actor)
                    /\ e.job.body.object = note.uri)
    /\ [][(disp.pc = "lookup" /\ Len(note'.lookups) = Len(note.lookups) + 1) =>
            LET post == disp.post[1]
                new == note'.lookups[Len(note'.lookups)].actor
            IN  /\ IdentityOf(new, post)
                /\ \A j \in DOMAIN note.lookups :
                      Rank(note.lookups[j].actor, post) < Rank(new, post)]_vars

\* C20 witness: of a post of a.example tagged news and rust, the inbox that
\* follows both tags got its job in the name of news, the first of them, and
\* an inbox following rust alone in the name of rust; three lookups were
\* made for the five identities the resolver emitted.
C20_Witness ==
    /\ note.phase = "done"
    /\ Len(note.lookups) = 3
    /\ note.lookups[1].actor.kind = InstanceRelay("a.example")
    /\ note.lookups[1].inboxes = {}
    /\ note.lookups[2].inboxes = {InboxB}
    /\ note.lookups[3].inboxes = {InboxB, InboxC}
    /\ Len(note.built) = 2
    /\ note.built[1].inbox = InboxB
    /\ note.built[1].job.actor_id = uri([host |-> Hostname, kind |-> TagRelay("news")])
    /\ note.built[2].inbox = InboxC
    /\ note.built[2].job.key_id = key_id([host |-> Hostname, kind |-> TagRelay("rust")])

====
